---------------------------- MODULE Spec2Model ----------------------------
(***************************************************************************)
(* dav-mcp: the transport-and-lifecycle adapter of src/server-http.js      *)
(* (stateless HTTP binding: CORS, body parser, rate limiter, bearer gate,  *)
(* one protocol server and transport per POST /mcp) and of                 *)
(* src/server-stdio.js (one protocol server on a duplex channel), with the *)
(* tools/list and tools/call handlers both bindings register, the start    *)
(* and the exit of the process, and TsdavClientManager (tsdav-client.js),  *)
(* the holder of the two DAV client handles.                               *)
(*                                                                         *)
(* Spec follows the serving process, SpecLogFault the same with a logger   *)
(* that may throw, SpecDav the client manager under any caller, SpecProc   *)
(* the process from its launch (start, signals, faults, exit), and         *)
(* SpecLimiter the limiter over more than one of its windows.              *)
(*                                                                         *)
(* One step of the model is one turn of the event loop: the middleware     *)
(* chain and the synchronous prefix of the call-tool handler run in the    *)
(* turn of the request's arrival; the settlement of a tool handler and the *)
(* close of a response stream are later turns, interleaved freely between  *)
(* requests.                                                               *)
(***************************************************************************)
EXTENDS Integers, Sequences, FiniteSets, TLC

(***************************************************************************)
(* Bounds of the model.                                                    *)
(***************************************************************************)
\* Requests (HTTP) or messages (stdio) received in one run; slot k holds the
\* k-th one.
MaxReq == 2
\* Requests received in a run that is followed from the launch of the
\* process.
MaxProcReq == 1
\* Uncaught exceptions and unhandled rejections in one run.
MaxFaults == 2

(***************************************************************************)
(* Program constants.                                                      *)
(***************************************************************************)
\* limiter.max for an ordinary address.
RemoteMax == 100
\* limiter.max for a loopback / internal address.
InternalMax == 10000
\* JSON-RPC code of the gate's 401 bodies.
CodeUnauthorized == -32001
\* JSON-RPC code of the 500 bodies (misconfiguration, internal server error).
CodeInternal == -32603
CodeMethodNotAllowed == -32000
\* MCP_ERROR_CODES.METHOD_NOT_FOUND (error-handler.js).
METHOD_NOT_FOUND == -32601

(***************************************************************************)
(* Strings as the code sees them: sequences of characters.                 *)
(***************************************************************************)
BearerPrefix == <<"B", "e", "a", "r", "e", "r", " ">>

\* String.prototype.startsWith
StartsWith(s, p) == Len(s) >= Len(p) /\ SubSeq(s, 1, Len(p)) = p

\* String.prototype.substring(n): the characters from index n (0-based) on.
Substring(s, n) == SubSeq(s, n + 1, Len(s))

\* A value that may be undefined: a header, an environment variable.
Absent == [present |-> FALSE, value |-> <<>>]
Str(s) == [present |-> TRUE, value |-> s]

\* JavaScript's !x for a string-or-undefined: undefined and "" are falsy.
Falsy(x) == ~x.present \/ x.value = <<>>

(***************************************************************************)
(* The Tool Registry (tools/index.js): an ordered list of descriptors.     *)
(* The handler of a descriptor is named by the DAV client it asks the      *)
(* session provider for.                                                   *)
(***************************************************************************)
tools ==
    << [name |-> "list_calendars", description |-> "List calendars",
        inputSchema |-> "schema:list_calendars", handler |-> "caldav"],
       [name |-> "list_contacts", description |-> "List contacts",
        inputSchema |-> "schema:list_contacts", handler |-> "carddav"] >>

\* request.params.arguments as received; Undefined when omitted.
Undefined == "undefined"
EmptyArgs == "{}"

\* tools.map(t => ({ name, description, inputSchema }))   (the mutant: the
\* descriptors themselves, handler included)
ListToolsMutantWithHandler == [i \in 1..Len(tools) |-> tools[i]]
ListToolsResult ==
    [i \in 1..Len(tools) |->
        [name |-> tools[i].name, description |-> tools[i].description,
         inputSchema |-> tools[i].inputSchema]]

\* tools.find(t => t.name === toolName): the index of the first descriptor
\* of that name, 0 when there is none.   (the mutant: names compared after
\* case folding)
CaseFold(n) == IF n = "List_Calendars" THEN "list_calendars" ELSE n
FindToolMutantCaseFold(toolName) ==
    LET hits == {i \in 1..Len(tools) : tools[i].name = CaseFold(toolName)}
    IN  IF hits = {} THEN 0 ELSE CHOOSE i \in hits : \A j \in hits : i <= j
FindTool(toolName) ==
    LET hits == {i \in 1..Len(tools) : tools[i].name = toolName}
    IN  IF hits = {} THEN 0 ELSE CHOOSE i \in hits : \A j \in hits : i <= j

\* request.params.arguments || {}   (the mutant: without the default)
ArgsOrDefaultMutantKeep(arguments) == arguments
ArgsOrDefault(arguments) == IF arguments = Undefined THEN EmptyArgs ELSE arguments

\* What a tool handler resolves with: opaque to the dispatch layer, here the
\* handler's own tool and the arguments it was given.
NoResult == [isError |-> FALSE, content |-> <<>>]
HandlerResult(tool, args) == [isError |-> FALSE, content |-> <<tool, args>>]

\* createToolErrorResponse(error, dev) (error-handler.js): the envelope of a
\* failure.
createToolErrorResponse(error) == [isError |-> TRUE, content |-> <<"Error", error>>]


(***************************************************************************)
(* The HTTP middleware chain of POST /mcp.                                 *)
(***************************************************************************)
\* allowedOrigins when CORS_ALLOWED_ORIGINS is not set.
allowedOrigins == <<"http://localhost:5678", "http://localhost:3000">>
NoOrigin == ""

\* The origin callback of cors(): no Origin header, a listed origin or a
\* listed '*' pass; anything else is an error handed to Express.
CorsAllows(origin) ==
    \/ origin = NoOrigin
    \/ \E i \in 1..Len(allowedOrigins) : allowedOrigins[i] = origin
    \/ \E i \in 1..Len(allowedOrigins) : allowedOrigins[i] = "*"

\* Addresses of the model; the last one starts with '::ffff:172.'.
LoopbackIp == "127.0.0.1"
RemoteIp == "203.0.113.7"
IPs == {LoopbackIp, RemoteIp}

\* (mutant) the elevated budget for every address.
LimiterMaxMutantAllInternal(ip) == InternalMax

\* limiter.max(req)
LimiterMax(ip) ==
    IF ip = "127.0.0.1" \/ ip = "::1" \/ ip = "::ffff:127.0.0.1"
       \/ ip = "::ffff:172.17.0.2"
    THEN InternalMax
    ELSE RemoteMax

\* crypto.timingSafeEqual on two buffers of one length.
TimingSafeEqual(a, b) == \A i \in 1..Len(a) : a[i] = b[i]

\* A step of the comparison of the presented token with the secret: the
\* test of the two lengths, or the reading of the bytes at one position.
LengthStep == [op |-> "length", at |-> 0]
ByteStep(i) == [op |-> "byte", at |-> i]

\* (mutant) a comparison that returns at the first position that differs.
RECURSIVE EarlyExitScan(_, _, _)
EarlyExitScan(a, b, i) ==
    IF i > Len(a)
    THEN <<>>
    ELSE IF a[i] # b[i]
    THEN <<ByteStep(i)>>
    ELSE <<ByteStep(i)>> \o EarlyExitScan(a, b, i + 1)
TimingSafeEqualStepsMutantEarlyExit(a, b) == EarlyExitScan(a, b, 1)

\* The positions crypto.timingSafeEqual reads on two buffers of one length:
\* it folds the difference of every pair of bytes into one accumulator and
\* looks at the accumulator only after the last position.
RECURSIVE ConstantTimeScan(_, _, _)
ConstantTimeScan(a, b, i) ==
    IF i > Len(a)
    THEN <<>>
    ELSE <<ByteStep(i)>> \o ConstantTimeScan(a, b, i + 1)
TimingSafeEqualSteps(a, b) == ConstantTimeScan(a, b, 1)

\* The steps authenticateBearer takes to compare the presented token with
\* the secret: none when it answers before the comparison; else the test of
\* the lengths and, as || evaluates its right side only when the lengths
\* are equal, the steps of crypto.timingSafeEqual.
ComparisonSteps(bearerToken, authHeader) ==
    IF Falsy(bearerToken)
    THEN <<>>
    ELSE IF Falsy(authHeader) \/ ~StartsWith(authHeader.value, BearerPrefix)
    THEN <<>>
    ELSE LET token == Substring(authHeader.value, 7)
         IN  IF Len(token) # Len(bearerToken.value)
             THEN <<LengthStep>>
             ELSE <<LengthStep>> \o TimingSafeEqualSteps(token, bearerToken.value)

\* The verdict of authenticateBearer: the status and JSON-RPC code of the
\* response it writes, or status 0 when it calls next().   (the mutants: the
\* check of the secret's presence left out; the content comparison left out;
\* the negation of the content comparison left out)
GateNext == [status |-> 0, code |-> 0]
AuthMutantNoSecretCheck(bearerToken, authHeader) ==
    IF Falsy(authHeader) \/ ~StartsWith(authHeader.value, BearerPrefix)
    THEN [status |-> 401, code |-> CodeUnauthorized]
    ELSE LET token == Substring(authHeader.value, 7)
         IN  IF Len(token) # Len(bearerToken.value)
             THEN [status |-> 401, code |-> CodeUnauthorized]
             ELSE IF ~TimingSafeEqual(token, bearerToken.value)
             THEN [status |-> 401, code |-> CodeUnauthorized]
             ELSE GateNext
AuthMutantLengthOnly(bearerToken, authHeader) ==
    IF Falsy(bearerToken)
    THEN [status |-> 500, code |-> CodeInternal]
    ELSE IF Falsy(authHeader) \/ ~StartsWith(authHeader.value, BearerPrefix)
    THEN [status |-> 401, code |-> CodeUnauthorized]
    ELSE LET token == Substring(authHeader.value, 7)
         IN  IF Len(token) # Len(bearerToken.value)
             THEN [status |-> 401, code |-> CodeUnauthorized]
             ELSE GateNext
AuthMutantNoNegation(bearerToken, authHeader) ==
    IF Falsy(bearerToken)
    THEN [status |-> 500, code |-> CodeInternal]
    ELSE IF Falsy(authHeader) \/ ~StartsWith(authHeader.value, BearerPrefix)
    THEN [status |-> 401, code |-> CodeUnauthorized]
    ELSE LET token == Substring(authHeader.value, 7)
         IN  IF Len(token) # Len(bearerToken.value)
                \/ TimingSafeEqual(token, bearerToken.value)
             THEN [status |-> 401, code |-> CodeUnauthorized]
             ELSE GateNext
authenticateBearer(bearerToken, authHeader) ==
    IF Falsy(bearerToken)
    THEN [status |-> 500, code |-> CodeInternal]
    ELSE IF Falsy(authHeader) \/ ~StartsWith(authHeader.value, BearerPrefix)
    THEN [status |-> 401, code |-> CodeUnauthorized]
    ELSE LET token == Substring(authHeader.value, 7)
         IN  IF Len(token) # Len(bearerToken.value)
                \/ ~TimingSafeEqual(token, bearerToken.value)
             THEN [status |-> 401, code |-> CodeUnauthorized]
             ELSE GateNext

(***************************************************************************)
(* Inputs.                                                                 *)
(***************************************************************************)
Secret == <<"x", "y">>
\* BEARER_TOKEN of the process: not set, set to "", set to a secret.
BearerTokens == {Absent, Str(<<>>), Str(Secret)}

HdrValid == Str(BearerPrefix \o Secret)
HdrWrong == Str(BearerPrefix \o <<"x", "x">>)
HdrWrongFirst == Str(BearerPrefix \o <<"z", "y">>)
HdrShort == Str(BearerPrefix \o <<"x">>)
HdrLong == Str(BearerPrefix \o <<"x", "y", "y">>)
HdrLower == Str(<<"b", "e", "a", "r", "e", "r", " ">> \o Secret)
HdrBare == Str(Secret)
BadHeaders == {Absent, Str(<<>>), HdrWrong, HdrWrongFirst, HdrShort, HdrLong, HdrLower, HdrBare}

\* The JSON-RPC message of a request.
ListRpc == [method |-> "tools/list", name |-> "", arguments |-> Undefined]
CallRpc(n, a) == [method |-> "tools/call", name |-> n, arguments |-> a]
NoRpc == [method |-> "", name |-> "", arguments |-> Undefined]
Rpcs ==
    { ListRpc,
      CallRpc("list_calendars", Undefined),
      CallRpc("list_calendars", "{calendar:1}"),
      CallRpc("list_contacts", EmptyArgs),
      CallRpc("List_Calendars", EmptyArgs),
      CallRpc("nonexistent", "{calendar:1}") }

HttpReq(ip, origin, bodyOk, hdr, rpc) ==
    [method |-> "POST", ip |-> ip, origin |-> origin, bodyOk |-> bodyOk,
     authorization |-> hdr, rpc |-> rpc]
NoRequest == [HttpReq("", NoOrigin, TRUE, Absent, NoRpc) EXCEPT !.method = ""]

\* The POST /mcp requests of the model.
HttpRequests ==
    {HttpReq(RemoteIp, NoOrigin, TRUE, HdrValid, rpc) : rpc \in Rpcs}
    \cup {HttpReq(RemoteIp, NoOrigin, TRUE, h, CallRpc("list_calendars", EmptyArgs)) :
            h \in BadHeaders}
    \cup {HttpReq(LoopbackIp, "http://localhost:5678", TRUE, HdrValid,
                  CallRpc("list_contacts", EmptyArgs)),
          HttpReq(RemoteIp, "http://evil.example", TRUE, HdrValid, ListRpc),
          HttpReq(RemoteIp, NoOrigin, FALSE, HdrValid, NoRpc)}

\* The GET /mcp and DELETE /mcp requests of the model: without credentials,
\* with a wrong and with the right token, and one from a foreign origin.
OtherReq(method, origin, hdr) ==
    [HttpReq(RemoteIp, origin, TRUE, hdr, NoRpc) EXCEPT !.method = method]
OtherRequests ==
    {OtherReq(m, NoOrigin, h) : m \in {"GET", "DELETE"}, h \in {Absent, HdrWrong, HdrValid}}
    \cup {OtherReq("GET", "http://evil.example", HdrValid)}

\* The messages of the model on the stdio channel.
StdioRequests == {HttpReq("", NoOrigin, TRUE, Absent, rpc) : rpc \in Rpcs}

(***************************************************************************)
(* State.                                                                  *)
(***************************************************************************)
VARIABLES
    mode,          \* "http" (--http) or "stdio"
    BEARER_TOKEN,  \* process.env.BEARER_TOKEN
    loggerFaulty,  \* whether operations of the tool-call logger may throw
    hits,          \* the limiter's store: requests counted per address
    win,           \* per address: the requests the limiter let pass
    reqs,          \* slot k: the k-th request and what became of it
    toolLog,       \* the events the tool-call logger has emitted, in order
    nextUuid,      \* crypto.randomUUID(): UUIDs drawn so far
    nextObj,       \* objects (servers, transports) constructed so far
    dav,           \* tsdavManager, the one TsdavClientManager of the process
    got,           \* what the last call of an accessor of tsdavManager gave
    proc           \* the process: its phase, its handlers, its exit

vars ==
    <<mode, BEARER_TOKEN, loggerFaulty, hits, win, reqs, toolLog, nextUuid, nextObj,
      dav, got, proc>>

Slots == 1..MaxReq

\* The limiter lets a request of ip pass: one more in the current window of
\* ip (passed), one more within the quarter hour that ends now (recent).
LetPass(ip) == [win EXCEPT ![ip].passed = @ + 1, ![ip].recent = @ + 1]

\* The process has not exited; it is past its start and serves.
Running == proc.phase # "Terminated"
Serving == proc.phase = "Ready"

FreeSlot ==
    [pc |-> "free",            \* free, rejected, inflight, done
     request |-> NoRequest,
     gate |-> "none",          \* the stage that answered: cors, body, limiter, auth, route,
                               \*   method (the GET and DELETE routes)
     compared |-> <<>>,        \* the steps authenticateBearer took to compare the token
     status |-> 0,             \* HTTP status written, 0 while none is
     code |-> 0,               \* JSON-RPC error code of the body, 0 if none
     requestId |-> 0,
     server |-> 0,
     transport |-> 0,
     resClosed |-> FALSE,
     serverClosed |-> FALSE,
     transportClosed |-> FALSE,
     invoked |-> <<>>,         \* tool handlers invoked: <<descriptor index, args,
                               \*   events in the log at the invocation>>
     settled |-> "none",       \* how tool.handler(args) settled: ok, failed
     davAccess |-> <<>>,       \* DAV session accessors the handlers called
     ret |-> "none",           \* how the protocol handler ended: return, raise
     retVal |-> NoResult,      \* what call-tool returned
     retCode |-> 0,            \* the code of what it raised
     listed |-> <<>>]          \* what list-tools returned

Event(phase, toolName, args, transport, requestId, call) ==
    [phase |-> phase, toolName |-> toolName, args |-> args,
     transport |-> transport, requestId |-> requestId, call |-> call]

(***************************************************************************)
(* The tool-call logger (tool-call-logger.js).  An operation emits one     *)
(* event; where the logger is faulty an operation may throw instead.       *)
(***************************************************************************)
\* Which logger operation of the synchronous prefix throws, if any.
PrefixFaults == IF loggerFaulty THEN {"none", "get", "start"} ELSE {"none"}
\* Which logger operations of the settlement throw: none, the first one
\* called, or the first one and the logToolCallError of the catch block.
SettleFaults == IF loggerFaulty THEN {"none", "first", "both"} ELSE {"none"}

(***************************************************************************)
(* createMCPServer: the two request handlers.  Each operator gives the     *)
(* slot after the handler's turn and the events the turn emitted.          *)
(***************************************************************************)
Turn(slot, events) == [slot |-> slot, events |-> events]

\* The tools/list handler.
ListToolsHandler(s) ==
    Turn([s EXCEPT !.pc = "done", !.ret = "return", !.listed = ListToolsResult], <<>>)

\* A handler that throws: the protocol server answers with a JSON-RPC error
\* of the error's code, or of the internal-error code when it has none.
Raise(s, code) == [s EXCEPT !.pc = "done", !.ret = "raise", !.retCode = code]

\* The tools/call handler up to its await: lookup, start event, the call of
\* tool.handler(args).
CallToolPrefix(s, call, rpc, transport, fault) ==
    IF fault = "get"
    THEN Turn(Raise(s, CodeInternal), <<>>)
    ELSE LET toolName == rpc.name
             args == ArgsOrDefault(rpc.arguments)
             tool == FindTool(toolName)
         IN  IF tool = 0
             THEN Turn(Raise(s, METHOD_NOT_FOUND), <<>>)
             ELSE IF fault = "start"
             THEN Turn(Raise(s, CodeInternal), <<>>)
             ELSE Turn([s EXCEPT !.pc = "inflight",
                                 !.invoked = Append(@, <<tool, args, Len(toolLog) + 1>>),
                                 !.davAccess = Append(@, tools[tool].handler)],
                       <<Event("start", toolName, args, transport, s.requestId, call)>>)

\* (mutant) the catch block rethrows instead of returning the envelope.
CallToolSettleMutantRethrow(s, call, transport, ok, fault) ==
    LET toolName == s.request.rpc.name
        args == s.invoked[Len(s.invoked)][2]
        tool == s.invoked[Len(s.invoked)][1]
        h == [s EXCEPT !.settled = IF ok THEN "ok" ELSE "failed"]
    IN  IF ok
        THEN Turn([h EXCEPT !.pc = "done", !.ret = "return",
                            !.retVal = HandlerResult(tools[tool].name, args)],
                  <<Event("success", toolName, args, transport, s.requestId, call)>>)
        ELSE Turn(Raise(h, CodeInternal),
                  <<Event("error", toolName, args, transport, s.requestId, call)>>)

\* (mutant) a handler that is abandoned once the response stream has closed:
\* the settlement of an abandoned handler emits no event.
CallToolSettleMutantAbandoned(s, call, transport, ok, fault) ==
    LET toolName == s.request.rpc.name
        args == s.invoked[Len(s.invoked)][2]
        tool == s.invoked[Len(s.invoked)][1]
        h == [s EXCEPT !.settled = IF ok THEN "ok" ELSE "failed"]
        v == IF ok THEN HandlerResult(tools[tool].name, args)
                   ELSE createToolErrorResponse("DAV request failed")
    IN  Turn([h EXCEPT !.pc = "done", !.ret = "return", !.retVal = v],
             IF s.resClosed
             THEN <<>>
             ELSE <<Event(IF ok THEN "success" ELSE "error",
                          toolName, args, transport, s.requestId, call)>>)

\* The tools/call handler after tool.handler(args) settled: ok says whether
\* it resolved.
CallToolSettle(s, call, transport, ok, fault) ==
    LET toolName == s.request.rpc.name
        args == s.invoked[Len(s.invoked)][2]
        tool == s.invoked[Len(s.invoked)][1]
        success == Event("success", toolName, args, transport, s.requestId, call)
        error == Event("error", toolName, args, transport, s.requestId, call)
        h == [s EXCEPT !.settled = IF ok THEN "ok" ELSE "failed"]
        Return(v) == [h EXCEPT !.pc = "done", !.ret = "return", !.retVal = v]
    IN  IF ok /\ fault = "none"
        THEN Turn(Return(HandlerResult(tools[tool].name, args)), <<success>>)
        ELSE IF ok /\ fault = "first"
        THEN Turn(Return(createToolErrorResponse("logger failure")), <<error>>)
        ELSE IF ~ok /\ fault = "none"
        THEN Turn(Return(createToolErrorResponse("DAV request failed")), <<error>>)
        ELSE Turn(Raise(h, CodeInternal), <<>>)

\* Either request handler, as the protocol server dispatches a message.
Dispatch(s, call, rpc, transport, fault) ==
    IF rpc.method = "tools/list"
    THEN ListToolsHandler(s)
    ELSE CallToolPrefix(s, call, rpc, transport, fault)

(***************************************************************************)
(* POST /mcp: cors, express.json, limiter, authenticateBearer, the route.  *)
(***************************************************************************)
Rejected(s, gate, status, code) ==
    [s EXCEPT !.pc = "rejected", !.gate = gate, !.status = status, !.code = code]

\* (mutant) one correlation id, drawn when the module loads, for all requests.
PostMcpMutantSharedId(s, call, connects, fault) ==
    LET made == [s EXCEPT !.gate = "route",
                          !.requestId = 1,
                          !.transport = nextObj + 1,
                          !.server = nextObj + 2]
    IN  IF ~connects
        THEN Turn([made EXCEPT !.pc = "done", !.status = 500, !.code = CodeInternal], <<>>)
        ELSE LET t == Dispatch(made, call, s.request.rpc, "http", fault)
             IN  IF t.slot.pc = "done"
                 THEN Turn([t.slot EXCEPT !.status = 200,
                                          !.code = t.slot.retCode], t.events)
                 ELSE t

\* (mutant) one transport, made when the module loads, for all requests.
PostMcpMutantSharedTransport(s, call, connects, fault) ==
    LET made == [s EXCEPT !.gate = "route",
                          !.requestId = nextUuid + 1,
                          !.transport = 1,
                          !.server = nextObj + 2]
    IN  IF ~connects
        THEN Turn([made EXCEPT !.pc = "done", !.status = 500, !.code = CodeInternal], <<>>)
        ELSE LET t == Dispatch(made, call, s.request.rpc, "http", fault)
             IN  IF t.slot.pc = "done"
                 THEN Turn([t.slot EXCEPT !.status = 200,
                                          !.code = t.slot.retCode], t.events)
                 ELSE t

\* The route handler of a request that passed the gate: a UUID, a transport,
\* a server, the close listener, connect and handleRequest.  connects says
\* whether connect and handleRequest go through.
PostMcp(s, call, connects, fault) ==
    LET made == [s EXCEPT !.gate = "route",
                          !.requestId = nextUuid + 1,
                          !.transport = nextObj + 1,
                          !.server = nextObj + 2]
    IN  IF ~connects
        THEN Turn([made EXCEPT !.pc = "done", !.status = 500, !.code = CodeInternal], <<>>)
        ELSE LET t == Dispatch(made, call, s.request.rpc, "http", fault)
             IN  IF t.slot.pc = "done"
                 THEN Turn([t.slot EXCEPT !.status = 200,
                                          !.code = t.slot.retCode], t.events)
                 ELSE t

Arrives(r) ==
    /\ reqs[r].pc = "free"
    /\ IF r = 1 THEN TRUE ELSE reqs[r - 1].pc # "free"

\* (mutant) authenticateBearer mounted before the limiter.
HttpPostMutantAuthFirst(r) ==
    /\ mode = "http"
    /\ Serving
    /\ Arrives(r)
    /\ \E req \in HttpRequests, connects \in BOOLEAN, fault \in PrefixFaults :
        LET s == [reqs[r] EXCEPT !.request = req]
            total == hits[req.ip] + 1
            verdict == authenticateBearer(BEARER_TOKEN, req.authorization)
            a == [s EXCEPT !.compared = ComparisonSteps(BEARER_TOKEN, req.authorization)]
        IN  IF ~CorsAllows(req.origin)
            THEN /\ reqs' = [reqs EXCEPT ![r] = Rejected(s, "cors", 500, 0)]
                 /\ UNCHANGED <<hits, win, toolLog, nextUuid, nextObj>>
            ELSE IF ~req.bodyOk
            THEN /\ reqs' = [reqs EXCEPT ![r] = Rejected(s, "body", 400, 0)]
                 /\ UNCHANGED <<hits, win, toolLog, nextUuid, nextObj>>
            ELSE IF verdict.status # 0
            THEN /\ reqs' = [reqs EXCEPT ![r] =
                                Rejected(a, "auth", verdict.status, verdict.code)]
                 /\ UNCHANGED <<hits, win, toolLog, nextUuid, nextObj>>
            ELSE IF total > LimiterMax(req.ip)
            THEN /\ reqs' = [reqs EXCEPT ![r] = Rejected(s, "limiter", 429, 0)]
                 /\ hits' = [hits EXCEPT ![req.ip] = total]
                 /\ win' = win
                 /\ UNCHANGED <<toolLog, nextUuid, nextObj>>
            ELSE LET t == PostMcp(a, r, connects, fault)
                 IN  /\ reqs' = [reqs EXCEPT ![r] = t.slot]
                     /\ hits' = [hits EXCEPT ![req.ip] = total]
                     /\ win' = LetPass(req.ip)
                     /\ toolLog' = toolLog \o t.events
                     /\ nextUuid' = nextUuid + 1
                     /\ nextObj' = nextObj + 2
    /\ UNCHANGED <<dav, got, proc, mode, BEARER_TOKEN, loggerFaulty>>

HttpPost(r) ==
    /\ mode = "http"
    /\ Serving
    /\ Arrives(r)
    /\ \E req \in HttpRequests, connects \in BOOLEAN, fault \in PrefixFaults :
        LET s == [reqs[r] EXCEPT !.request = req]
            total == hits[req.ip] + 1
            verdict == authenticateBearer(BEARER_TOKEN, req.authorization)
            a == [s EXCEPT !.compared = ComparisonSteps(BEARER_TOKEN, req.authorization)]
        IN  IF ~CorsAllows(req.origin)
            THEN /\ reqs' = [reqs EXCEPT ![r] = Rejected(s, "cors", 500, 0)]
                 /\ UNCHANGED <<hits, win, toolLog, nextUuid, nextObj>>
            ELSE IF ~req.bodyOk
            THEN /\ reqs' = [reqs EXCEPT ![r] = Rejected(s, "body", 400, 0)]
                 /\ UNCHANGED <<hits, win, toolLog, nextUuid, nextObj>>
            ELSE IF total > LimiterMax(req.ip)
            THEN /\ reqs' = [reqs EXCEPT ![r] = Rejected(s, "limiter", 429, 0)]
                 /\ hits' = [hits EXCEPT ![req.ip] = total]
                 /\ win' = win
                 /\ UNCHANGED <<toolLog, nextUuid, nextObj>>
            ELSE IF verdict.status # 0
            THEN /\ reqs' = [reqs EXCEPT ![r] =
                                Rejected(a, "auth", verdict.status, verdict.code)]
                 /\ hits' = [hits EXCEPT ![req.ip] = total]
                 /\ win' = LetPass(req.ip)
                 /\ UNCHANGED <<toolLog, nextUuid, nextObj>>
            ELSE LET t == PostMcp(a, r, connects, fault)
                 IN  /\ reqs' = [reqs EXCEPT ![r] = t.slot]
                     /\ hits' = [hits EXCEPT ![req.ip] = total]
                     /\ win' = LetPass(req.ip)
                     /\ toolLog' = toolLog \o t.events
                     /\ nextUuid' = nextUuid + 1
                     /\ nextObj' = nextObj + 2
    /\ UNCHANGED <<dav, got, proc, mode, BEARER_TOKEN, loggerFaulty>>

\* (mutant) the GET and DELETE routes behind authenticateBearer, as POST is.
GetOrDeleteMcpMutantAuthenticated(s) ==
    LET verdict == authenticateBearer(BEARER_TOKEN, s.request.authorization)
    IN  IF verdict.status # 0
        THEN Rejected(s, "auth", verdict.status, verdict.code)
        ELSE Rejected(s, "method", 405, CodeMethodNotAllowed)

\* app.get('/mcp') and app.delete('/mcp'): the route handlers answer 405.
GetOrDeleteMcp(s) == Rejected(s, "method", 405, CodeMethodNotAllowed)

\* GET /mcp or DELETE /mcp: cors, express.json, limiter, the route.
HttpGetOrDelete(r) ==
    /\ mode = "http"
    /\ Serving
    /\ Arrives(r)
    /\ \E req \in OtherRequests :
        LET s == [reqs[r] EXCEPT !.request = req]
            total == hits[req.ip] + 1
        IN  IF ~CorsAllows(req.origin)
            THEN /\ reqs' = [reqs EXCEPT ![r] = Rejected(s, "cors", 500, 0)]
                 /\ UNCHANGED <<hits, win>>
            ELSE IF ~req.bodyOk
            THEN /\ reqs' = [reqs EXCEPT ![r] = Rejected(s, "body", 400, 0)]
                 /\ UNCHANGED <<hits, win>>
            ELSE IF total > LimiterMax(req.ip)
            THEN /\ reqs' = [reqs EXCEPT ![r] = Rejected(s, "limiter", 429, 0)]
                 /\ hits' = [hits EXCEPT ![req.ip] = total]
                 /\ win' = win
            ELSE /\ reqs' = [reqs EXCEPT ![r] = GetOrDeleteMcp(s)]
                 /\ hits' = [hits EXCEPT ![req.ip] = total]
                 /\ win' = LetPass(req.ip)
    /\ UNCHANGED <<dav, got, proc, mode, BEARER_TOKEN, loggerFaulty, toolLog, nextUuid, nextObj>>

\* res.on('close'): the response stream of request r closes, after the
\* response was written or because the client went away.   (the mutant: the
\* listener closes the transport alone)
CloseListenerMutantTransportOnly(s) == [s EXCEPT !.transportClosed = TRUE]
CloseListener(s) == [s EXCEPT !.transportClosed = TRUE, !.serverClosed = TRUE]
ResClose(r) ==
    /\ mode = "http"
    /\ Serving
    /\ reqs[r].pc # "free"
    /\ ~reqs[r].resClosed
    /\ LET s == [reqs[r] EXCEPT !.resClosed = TRUE]
       IN  reqs' = [reqs EXCEPT ![r] = IF s.server # 0 THEN CloseListener(s) ELSE s]
    /\ UNCHANGED <<dav, got, proc, mode, BEARER_TOKEN, loggerFaulty, hits, win, toolLog, nextUuid, nextObj>>

(***************************************************************************)
(* The limiter's window (windowMs, a quarter of an hour).  The count of an *)
(* address starts with its first request and is dropped windowMs later;    *)
(* the next request starts a new count.  The model has no clock: requests  *)
(* may follow each other as closely as wished, so when the window of an    *)
(* address expires its first request is a quarter of an hour old and every *)
(* other one may be as recent as wished.  After an expiry the address is   *)
(* followed until a quarter of an hour has passed without requests.        *)
(***************************************************************************)
WindowExpires(ip) ==
    /\ mode = "http"
    /\ Serving
    /\ hits[ip] > 0
    /\ ~win[ip].expired
    /\ hits' = [hits EXCEPT ![ip] = 0]
    /\ win' = [win EXCEPT ![ip].passed = 0,
                          ![ip].recent = IF @ > 0 THEN @ - 1 ELSE 0,
                          ![ip].expired = TRUE]
    /\ UNCHANGED <<dav, got, proc, mode, BEARER_TOKEN, loggerFaulty, reqs, toolLog,
                   nextUuid, nextObj>>

\* A quarter of an hour passes without a request: every count is dropped
\* and no request that passed is recent any more.
QuarterHourPasses ==
    /\ mode = "http"
    /\ Serving
    /\ \E ip \in IPs : hits[ip] > 0 \/ win[ip].recent > 0 \/ win[ip].expired
    /\ hits' = [ip \in IPs |-> 0]
    /\ win' = [ip \in IPs |-> [passed |-> 0, recent |-> 0, expired |-> FALSE]]
    /\ UNCHANGED <<dav, got, proc, mode, BEARER_TOKEN, loggerFaulty, reqs, toolLog,
                   nextUuid, nextObj>>

(***************************************************************************)
(* stdio: a message arrives on the one transport of the one server.        *)
(***************************************************************************)
StdioMessage(r) ==
    /\ mode = "stdio"
    /\ Serving
    /\ Arrives(r)
    /\ \E req \in StdioRequests, fault \in PrefixFaults :
        LET t == Dispatch([reqs[r] EXCEPT !.request = req], r, req.rpc, "stdio", fault)
        IN  /\ reqs' = [reqs EXCEPT ![r] = t.slot]
            /\ toolLog' = toolLog \o t.events
    /\ UNCHANGED <<dav, got, proc, mode, BEARER_TOKEN, loggerFaulty, hits, win, nextUuid, nextObj>>

(***************************************************************************)
(* The tool handler of call r settles, on either transport.  Over HTTP the *)
(* response is written unless the stream has closed.                       *)
(***************************************************************************)
HandlerSettles(r) ==
    /\ Serving
    /\ reqs[r].pc = "inflight"
    /\ \E ok \in BOOLEAN, fault \in SettleFaults :
        LET t == CallToolSettle(reqs[r], r, mode, ok, fault)
            written == mode = "http" /\ ~reqs[r].resClosed
        IN  /\ reqs' = [reqs EXCEPT ![r] =
                           IF written
                           THEN [t.slot EXCEPT !.status = 200, !.code = t.slot.retCode]
                           ELSE t.slot]
            /\ toolLog' = toolLog \o t.events
    /\ UNCHANGED <<dav, got, proc, mode, BEARER_TOKEN, loggerFaulty, hits, win, nextUuid, nextObj>>

(***************************************************************************)
(* TsdavClientManager (tsdav-client.js).  A configuration object says for  *)
(* each field whether it holds a truthy value, and gives authMethod ("" if *)
(* it has none).  A client handle is null or a DAVClient.                  *)
(***************************************************************************)
NoConfig ==
    [authMethod |-> "", serverUrl |-> FALSE, username |-> FALSE, password |-> FALSE,
     clientId |-> FALSE, clientSecret |-> FALSE, refreshToken |-> FALSE,
     tokenUrl |-> FALSE, cardDavServerUrl |-> FALSE]

Null == [account |-> "", authMethod |-> "", serverUrl |-> FALSE, loggedIn |-> FALSE]

\* new DAVClient({serverUrl, credentials, authMethod, defaultAccountType})
DAVClient(serverUrl, authMethod, account) ==
    [account |-> account, authMethod |-> authMethod, serverUrl |-> serverUrl,
     loggedIn |-> FALSE]

\* constructor()
NewManager ==
    [pc |-> "new",             \* new, calLogin, cardLogin, resolved, rejected
     config |-> NoConfig,
     authMethod |-> "",        \* "" is null
     calDavClient |-> Null,
     cardDavClient |-> Null,
     logins |-> <<>>,          \* the clients whose login() was called, in order
     warned |-> FALSE,         \* logger.warn of a tolerated CardDAV failure
     error |-> ""]             \* the message initialize rejected with

useOAuth(m) == m.authMethod = "OAuth" \/ m.authMethod = "Oauth"

Rejects(m, message) == [m EXCEPT !.pc = "rejected", !.error = message]

\* Both clients are constructed, then calDavClient.login() is called.
ClientsMade(m, authMethod) ==
    [m EXCEPT !.calDavClient = DAVClient(m.config.serverUrl, authMethod, "caldav"),
              !.cardDavClient = DAVClient(m.config.cardDavServerUrl \/ m.config.serverUrl,
                                          authMethod, "carddav"),
              !.logins = <<"caldav">>,
              !.pc = "calLogin"]

\* _initializeBasicAuth up to its first await.
initializeBasicAuth(m) ==
    IF ~m.config.username \/ ~m.config.password
    THEN Rejects(m, "Basic Auth requires username and password")
    ELSE ClientsMade(m, "Basic")

\* _initializeOAuth up to its first await.
initializeOAuth(m) ==
    IF ~m.config.username
    THEN Rejects(m, "OAuth requires username (user email)")
    ELSE IF ~m.config.clientId \/ ~m.config.clientSecret \/ ~m.config.refreshToken
    THEN Rejects(m, "OAuth requires clientId, clientSecret, and refreshToken")
    ELSE ClientsMade(m, "Oauth")

\* initialize(config) up to its first await.
initialize(m, config) ==
    LET set == [m EXCEPT !.config = config,
                         !.authMethod = IF config.authMethod = "" THEN "Basic"
                                        ELSE config.authMethod]
    IN  IF useOAuth(set) THEN initializeOAuth(set) ELSE initializeBasicAuth(set)

\* await this.calDavClient.login() settles; on success cardDavClient.login()
\* is called.
calLoginSettles(m, ok) ==
    IF ok
    THEN [m EXCEPT !.calDavClient.loggedIn = TRUE,
                   !.logins = Append(@, "carddav"),
                   !.pc = "cardLogin"]
    ELSE Rejects(m, "CalDAV login failed")

\* (mutant) the CardDAV login of initializeOAuth without its try/catch.
cardLoginSettlesMutantNoCatch(m, ok) ==
    IF ok
    THEN [m EXCEPT !.cardDavClient.loggedIn = TRUE, !.pc = "resolved"]
    ELSE Rejects(m, "CardDAV login failed")

\* await this.cardDavClient.login() settles.
cardLoginSettles(m, ok) ==
    IF ok
    THEN [m EXCEPT !.cardDavClient.loggedIn = TRUE, !.pc = "resolved"]
    ELSE IF useOAuth(m)
    THEN [m EXCEPT !.warned = TRUE, !.pc = "resolved"]
    ELSE Rejects(m, "CardDAV login failed")

\* A login can succeed only against a server URL.
LoginOutcomes(client) == IF client.serverUrl THEN BOOLEAN ELSE {FALSE}

\* What an accessor gave: the handle, or the 'not initialized' error.
NotGot == [accessor |-> "", raised |-> "", handle |-> Null, during |-> ""]
Got(accessor, handle, message, m) ==
    [accessor |-> accessor,
     raised |-> IF handle = Null THEN message ELSE "",
     handle |-> handle,
     during |-> m.pc]

getCalDavClient(m) ==
    Got("getCalDavClient", m.calDavClient,
        "CalDAV client not initialized. Call initialize() first.", m)

getCardDavClient(m) ==
    Got("getCardDavClient", m.cardDavClient,
        "CardDAV client not initialized. Call initialize() first.", m)

\* The configuration objects a caller may pass to initialize.
Configs ==
    [authMethod : {"", "Basic", "OAuth", "Oauth"}, serverUrl : BOOLEAN,
     username : BOOLEAN, password : BOOLEAN, clientId : BOOLEAN,
     clientSecret : BOOLEAN, refreshToken : BOOLEAN, tokenUrl : BOOLEAN,
     cardDavServerUrl : {FALSE}]
    \cup {[NoConfig EXCEPT !.authMethod = "Basic", !.username = TRUE,
                           !.password = TRUE, !.cardDavServerUrl = TRUE]}

\* tsdavManager on its own, under any caller that calls initialize once:
\* the call of initialize, the logins settling, the accessors.
DavInitialize ==
    /\ mode = "none"
    /\ dav.pc = "new"
    /\ \E config \in Configs : dav' = initialize(dav, config)
    /\ UNCHANGED <<got, proc, mode, BEARER_TOKEN, loggerFaulty, hits, win, reqs, toolLog,
                   nextUuid, nextObj>>

GetCalDavClient ==
    /\ mode = "none"
    /\ got' = getCalDavClient(dav)
    /\ UNCHANGED <<dav, proc, mode, BEARER_TOKEN, loggerFaulty, hits, win, reqs, toolLog,
                   nextUuid, nextObj>>

GetCardDavClient ==
    /\ mode = "none"
    /\ got' = getCardDavClient(dav)
    /\ UNCHANGED <<dav, proc, mode, BEARER_TOKEN, loggerFaulty, hits, win, reqs, toolLog,
                   nextUuid, nextObj>>

(***************************************************************************)
(* The process: start, the handlers of signals and of uncaught faults,     *)
(* exit.                                                                   *)
(***************************************************************************)
NotExited == 0 - 1

LaunchedProc ==
    [phase |-> "Uninitialized",  \* Uninitialized, Initializing, Ready,
                                 \*   ShuttingDown, Terminated
     history |-> <<"Uninitialized">>,  \* the phases passed, in order
     exitCode |-> NotExited,
     handlers |-> FALSE,         \* process.on(...) of the signals and faults ran
     davInits |-> 0,             \* calls of tsdavManager.initialize
     loggerInits |-> 0,          \* calls of initializeToolCallLogger
     listening |-> FALSE,        \* app.listen ran / the stdio transport is connected
     server |-> 0,               \* stdio: the server of the process
     transport |-> 0,            \* stdio: its transport
     logged |-> "",              \* what a handler of the process logged last
     faults |-> 0]               \* uncaught exceptions and unhandled rejections so far

Move(p, phase) == [p EXCEPT !.phase = phase, !.history = Append(@, phase)]
Logs(p, message) == [p EXCEPT !.logged = message]

\* process.exit(code)
Exit(p, code) == [Move(p, "Terminated") EXCEPT !.exitCode = code, !.listening = FALSE]

\* No handler is registered for the signal: the process is killed by it.
Killed(p, sig) ==
    [Move(p, "Terminated") EXCEPT !.exitCode = IF sig = "SIGTERM" THEN 143 ELSE 130,
                                  !.listening = FALSE]

\* The environment of the process: which variables hold a value (serverUrl
\* is CALDAV_SERVER_URL or GOOGLE_SERVER_URL, username CALDAV_USERNAME or
\* GOOGLE_USER, and so on), and AUTH_METHOD.
Env(authMethod, missing) ==
    [f \in DOMAIN NoConfig |->
        IF f = "authMethod" THEN authMethod ELSE f \notin missing]
Envs ==
    {Env("Basic", {}), Env("", {"cardDavServerUrl"}), Env("OAuth", {}),
     Env("Oauth", {"serverUrl", "tokenUrl", "password"}),
     Env("Basic", {"password"}), Env("", {"serverUrl"}),
     Env("OAuth", {"clientSecret"}), Env("OAuth", {"username"})}

\* initializeTsdav: whether its validation of the environment throws.
EnvInvalid(env) ==
    IF env.authMethod = "OAuth" \/ env.authMethod = "Oauth"
    THEN ~env.clientId \/ ~env.clientSecret \/ ~env.refreshToken
    ELSE ~env.serverUrl \/ ~env.username \/ ~env.password

\* initializeTsdav: the configuration object it passes to initialize.
EnvConfig(env) ==
    IF env.authMethod = "OAuth" \/ env.authMethod = "Oauth"
    THEN [NoConfig EXCEPT !.authMethod = "OAuth", !.serverUrl = TRUE,
                          !.username = env.username, !.clientId = env.clientId,
                          !.clientSecret = env.clientSecret,
                          !.refreshToken = env.refreshToken, !.tokenUrl = TRUE]
    ELSE [NoConfig EXCEPT !.authMethod = "Basic", !.serverUrl = env.serverUrl,
                          !.username = env.username, !.password = env.password,
                          !.cardDavServerUrl = (mode = "stdio" /\ env.cardDavServerUrl)]

\* The process starts: the module loads (in HTTP mode this registers the
\* handlers of the process), then start() / the main try block runs up to
\* its first await, inside tsdavManager.initialize.
Start ==
    /\ mode \in {"http", "stdio"}
    /\ proc.phase = "Uninitialized"
    /\ \E env \in Envs :
        LET p == [Move(proc, "Initializing") EXCEPT !.handlers = (mode = "http")]
            m == initialize(dav, EnvConfig(env))
            called == [p EXCEPT !.davInits = @ + 1]
        IN  IF EnvInvalid(env)
            THEN /\ proc' = Exit(Logs(p, "Failed to start"), 1)
                 /\ UNCHANGED dav
            ELSE /\ dav' = m
                 /\ proc' = IF m.pc = "rejected"
                             THEN Exit(Logs(called, "Failed to start"), 1)
                             ELSE called
    /\ UNCHANGED <<got, mode, BEARER_TOKEN, loggerFaulty, hits, win, reqs, toolLog,
                   nextUuid, nextObj>>

\* What initializeToolCallLogger() may do: return, or throw where the
\* logger is faulty.
LoggerInitOutcomes == IF loggerFaulty THEN BOOLEAN ELSE {TRUE}

\* (mutant) start() that goes on to listen after a failed initialization.
StartResumesMutantIgnoresFailure(p, m, logOk) ==
    IF p.phase # "Initializing" \/ m.pc \notin {"resolved", "rejected"}
    THEN p
    ELSE LET made == IF mode = "stdio"
                     THEN [p EXCEPT !.server = nextObj + 1, !.transport = nextObj + 2,
                                    !.handlers = TRUE]
                     ELSE p
         IN  [Move(made, "Ready") EXCEPT !.listening = TRUE]

\* start() / the main try block after await initializeTsdav() settled:
\* exit(1) if it rejected; else initializeToolCallLogger(), then app.listen
\* (http) or createMCPServer, new StdioServerTransport, connect and the
\* registration of the handlers of the process (stdio).
StartResumes(p, m, logOk) ==
    IF p.phase # "Initializing" \/ m.pc \notin {"resolved", "rejected"}
    THEN p
    ELSE IF m.pc = "rejected"
    THEN Exit(Logs(p, "Failed to start"), 1)
    ELSE LET inited == [p EXCEPT !.loggerInits = @ + 1]
             made == IF mode = "stdio"
                     THEN [inited EXCEPT !.server = nextObj + 1,
                                         !.transport = nextObj + 2,
                                         !.handlers = TRUE]
                     ELSE inited
         IN  IF ~logOk
             THEN Exit(Logs(inited, "Failed to start"), 1)
             ELSE [Move(made, "Ready") EXCEPT !.listening = TRUE]

\* await this.calDavClient.login() settles.
CalDavLoginSettles ==
    /\ Running
    /\ dav.pc = "calLogin"
    /\ \E ok \in LoginOutcomes(dav.calDavClient) :
        /\ dav' = calLoginSettles(dav, ok)
        /\ proc' = StartResumes(proc, dav', TRUE)
    /\ UNCHANGED <<got, mode, BEARER_TOKEN, loggerFaulty, hits, win, reqs, toolLog,
                   nextUuid, nextObj>>

\* await this.cardDavClient.login() settles.
CardDavLoginSettles ==
    /\ Running
    /\ dav.pc = "cardLogin"
    /\ \E ok \in LoginOutcomes(dav.cardDavClient), logOk \in LoggerInitOutcomes :
        /\ dav' = cardLoginSettles(dav, ok)
        /\ proc' = StartResumes(proc, dav', logOk)
        /\ nextObj' = IF proc'.server # 0 THEN nextObj + 2 ELSE nextObj
    /\ UNCHANGED <<got, mode, BEARER_TOKEN, loggerFaulty, hits, win, reqs, toolLog,
                   nextUuid>>

\* (mutant) a shutdown that exits only when no handler is in flight.
SignalMutantAwaitsRequests ==
    /\ mode \in {"http", "stdio"}
    /\ Running
    /\ proc.phase # "ShuttingDown"
    /\ \E sig \in {"SIGTERM", "SIGINT"} :
        LET p == Move(Logs(proc, "shutting down"), "ShuttingDown")
        IN  proc' = IF ~proc.handlers
                    THEN Killed(proc, sig)
                    ELSE IF \E r \in Slots : reqs[r].pc = "inflight"
                    THEN p
                    ELSE Exit(p, 0)
    /\ UNCHANGED <<dav, got, mode, BEARER_TOKEN, loggerFaulty, hits, win, reqs, toolLog,
                   nextUuid, nextObj>>

\* SIGTERM or SIGINT is delivered to the process.  With the handlers
\* registered: the log line, then process.exit(0).
Signal ==
    /\ mode \in {"http", "stdio"}
    /\ Running
    /\ \E sig \in {"SIGTERM", "SIGINT"} :
        proc' = IF proc.handlers
                THEN Exit(Move(Logs(proc, "shutting down"), "ShuttingDown"), 0)
                ELSE Killed(proc, sig)
    /\ UNCHANGED <<dav, got, mode, BEARER_TOKEN, loggerFaulty, hits, win, reqs, toolLog,
                   nextUuid, nextObj>>

FaultKinds == {"Uncaught exception", "Unhandled promise rejection"}

\* (mutant) the stdio handlers log the fault and return, as the http ones do.
FaultHandledMutantLogOnly(p, kind) == Logs(p, kind)

\* (mutant) the http handlers log the fault and exit, as the stdio ones do.
FaultHandledMutantAlwaysFatal(p, kind) == Exit(Logs(p, kind), 1)

\* process.on('uncaughtException') and process.on('unhandledRejection'):
\* stdio logs the fault and calls process.exit(1); http logs it.
FaultHandled(p, kind) ==
    IF mode = "stdio" THEN Exit(Logs(p, kind), 1) ELSE Logs(p, kind)

\* An exception nothing catches, or a promise rejection nothing handles.
\* With no handler registered Node ends the process with code 1.
Fault ==
    /\ mode \in {"http", "stdio"}
    /\ Running
    /\ proc.faults < MaxFaults
    /\ \E kind \in FaultKinds :
        LET p == [proc EXCEPT !.faults = @ + 1]
        IN  proc' = IF p.handlers THEN FaultHandled(p, kind) ELSE Exit(p, 1)
    /\ UNCHANGED <<dav, got, mode, BEARER_TOKEN, loggerFaulty, hits, win, reqs, toolLog,
                   nextUuid, nextObj>>

(***************************************************************************)
(* Specifications.                                                         *)
(***************************************************************************)
\* The limiter's store outlives every request: a run starts with an empty
\* store, or with the store one short of the budget of the remote address
\* (RemoteMax - 1 earlier requests turned away by the gate, which leave
\* nothing else behind).
InitStores ==
    {[ip \in IPs |-> 0], [ip \in IPs |-> IF ip = RemoteIp THEN RemoteMax - 1 ELSE 0]}

\* The serving process: it started with a complete Basic configuration,
\* both logins succeeded, and it is Ready (in stdio mode with its server and
\* its transport, the first two objects constructed).
ServingManager ==
    cardLoginSettles(calLoginSettles(initialize(NewManager, EnvConfig(Env("Basic", {}))),
                                     TRUE), TRUE)
ServingProc ==
    [LaunchedProc EXCEPT !.phase = "Ready",
                         !.history = <<"Uninitialized", "Initializing", "Ready">>,
                         !.handlers = TRUE,
                         !.davInits = 1,
                         !.loggerInits = 1,
                         !.listening = TRUE,
                         !.server = IF mode = "stdio" THEN 1 ELSE 0,
                         !.transport = IF mode = "stdio" THEN 2 ELSE 0]

\* The requests counted in a store were all let pass, if they are within
\* the budget, and may all be recent.
InitWindow(store) ==
    [ip \in IPs |->
        [passed |-> IF store[ip] <= LimiterMax(ip) THEN store[ip] ELSE LimiterMax(ip),
         recent |-> IF store[ip] <= LimiterMax(ip) THEN store[ip] ELSE LimiterMax(ip),
         expired |-> FALSE]]

InitWith(faulty) ==
    /\ mode \in {"http", "stdio"}
    /\ BEARER_TOKEN \in (IF mode = "http" THEN BearerTokens ELSE {Absent})
    /\ loggerFaulty = faulty
    /\ hits \in (IF mode = "http" THEN InitStores ELSE {[ip \in IPs |-> 0]})
    /\ win = InitWindow(hits)
    /\ reqs = [r \in Slots |-> FreeSlot]
    /\ toolLog = <<>>
    /\ nextUuid = 0
    /\ nextObj = (IF mode = "stdio" THEN 2 ELSE 0)
    /\ dav = ServingManager
    /\ got = NotGot
    /\ proc = ServingProc

Init == InitWith(FALSE)

Next ==
    \E r \in Slots :
        \/ HttpPost(r)
        \/ HttpGetOrDelete(r)
        \/ ResClose(r)
        \/ StdioMessage(r)
        \/ HandlerSettles(r)

Spec == Init /\ [][Next]_vars

\* The same program with a tool-call logger whose operations may throw.
InitLogFault == InitWith(TRUE)
SpecLogFault == InitLogFault /\ [][Next]_vars

\* tsdavManager on its own, from its construction.
InitDav ==
    /\ mode = "none"
    /\ BEARER_TOKEN = Absent
    /\ loggerFaulty = FALSE
    /\ hits = [ip \in IPs |-> 0]
    /\ win = InitWindow(hits)
    /\ reqs = [r \in Slots |-> FreeSlot]
    /\ toolLog = <<>>
    /\ nextUuid = 0
    /\ nextObj = 0
    /\ dav = NewManager
    /\ got = NotGot
    /\ proc = LaunchedProc

NextDav ==
    \/ DavInitialize
    \/ CalDavLoginSettles
    \/ CardDavLoginSettles
    \/ GetCalDavClient
    \/ GetCardDavClient

SpecDav == InitDav /\ [][NextDav]_vars

\* The process from its launch, in either mode, with BEARER_TOKEN set.
InitProc ==
    /\ mode \in {"http", "stdio"}
    /\ BEARER_TOKEN = (IF mode = "http" THEN Str(Secret) ELSE Absent)
    /\ loggerFaulty = FALSE
    /\ hits = [ip \in IPs |-> 0]
    /\ win = InitWindow(hits)
    /\ reqs = [r \in Slots |-> FreeSlot]
    /\ toolLog = <<>>
    /\ nextUuid = 0
    /\ nextObj = 0
    /\ dav = NewManager
    /\ got = NotGot
    /\ proc = LaunchedProc

\* A run from the launch receives up to MaxProcReq requests.
NextProc ==
    \/ Start
    \/ CalDavLoginSettles
    \/ CardDavLoginSettles
    \/ Signal
    \/ Fault
    \/ \E r \in 1..MaxProcReq :
          \/ HttpPost(r)
          \/ HttpGetOrDelete(r)
          \/ ResClose(r)
          \/ StdioMessage(r)
          \/ HandlerSettles(r)

SpecProc == InitProc /\ [][NextProc]_vars

\* The limiter of the serving HTTP process over more than one window: the
\* requests arriving and the time passing, from an empty store or from one
\* whose remote address has used its budget.
InitWindowStores ==
    {[ip \in IPs |-> 0], [ip \in IPs |-> IF ip = RemoteIp THEN RemoteMax ELSE 0]}

InitLimiter ==
    /\ mode = "http"
    /\ BEARER_TOKEN = Str(Secret)
    /\ loggerFaulty = FALSE
    /\ hits \in InitWindowStores
    /\ win = InitWindow(hits)
    /\ reqs = [r \in Slots |-> FreeSlot]
    /\ toolLog = <<>>
    /\ nextUuid = 0
    /\ nextObj = 0
    /\ dav = ServingManager
    /\ got = NotGot
    /\ proc = ServingProc

NextLimiter ==
    \/ \E r \in Slots : HttpPost(r) \/ HttpGetOrDelete(r)
    \/ \E ip \in IPs : WindowExpires(ip)
    \/ QuarterHourPasses

SpecLimiter == InitLimiter /\ [][NextLimiter]_vars

(***************************************************************************)
(* Vocabulary of the properties.                                           *)
(***************************************************************************)
Arrived(r) == reqs[r].pc # "free"
IsPost(r) == reqs[r].request.method = "POST"
IsGetOrDelete(r) == reqs[r].request.method \in {"GET", "DELETE"}

\* The request got as far as authenticateBearer.
ReachedGate(r) == reqs[r].gate \in {"auth", "route"}

\* The Authorization header is missing, does not start with 'Bearer ', or
\* carries a token other than the configured secret.
BadCredential(r) ==
    LET h == reqs[r].request.authorization
    IN  \/ ~h.present
        \/ ~StartsWith(h.value, BearerPrefix)
        \/ Substring(h.value, 7) # BEARER_TOKEN.value

\* The header is 'Bearer ' followed by the configured secret.
ValidCredential(r) ==
    /\ ~Falsy(BEARER_TOKEN)
    /\ reqs[r].request.authorization = Str(BearerPrefix \o BEARER_TOKEN.value)

EventsOf(r) == SelectSeq(toolLog, LAMBDA e : e.call = r)

\* Nothing of protocol dispatch happened for request r.
NoDispatch(r) ==
    /\ reqs[r].server = 0
    /\ reqs[r].transport = 0
    /\ reqs[r].requestId = 0
    /\ reqs[r].ret = "none"
    /\ reqs[r].invoked = <<>>
    /\ reqs[r].davAccess = <<>>
    /\ EventsOf(r) = <<>>

\* A request handler of the protocol server ran for r.
Handled(r) == reqs[r].pc = "inflight" \/ reqs[r].ret # "none"

(***************************************************************************)
(* C1.  Claim as stated: every POST /mcp request whose Authorization       *)
(* header is missing, does not start with 'Bearer ' or carries a token     *)
(* other than the configured secret is answered 401 with code -32001, and  *)
(* nothing of protocol dispatch happens for it.                            *)
(***************************************************************************)
C1_AsStated ==
    mode = "http" =>
        \A r \in Slots :
            Arrived(r) /\ IsPost(r) /\ BadCredential(r) =>
                /\ reqs[r].status = 401
                /\ reqs[r].code = CodeUnauthorized
                /\ NoDispatch(r)

(***************************************************************************)
(* C1, amended.  Every POST /mcp request with such a header that reaches   *)
(* the authentication gate while BEARER_TOKEN is configured is answered    *)
(* 401 with code -32001 by the gate; and for every request with such a     *)
(* header, however it is answered, no server instance or transport is      *)
(* created, no request handler runs (so no registry lookup), no tool       *)
(* handler or DAV session accessor is invoked and no tool-call event is    *)
(* emitted.                                                                *)
(***************************************************************************)
C1_BadCredentialRejected ==
    mode = "http" =>
        \A r \in Slots :
            Arrived(r) /\ IsPost(r) /\ BadCredential(r) =>
                /\ NoDispatch(r)
                /\ reqs[r].pc = "rejected"
                /\ ReachedGate(r) /\ ~Falsy(BEARER_TOKEN) =>
                      /\ reqs[r].gate = "auth"
                      /\ reqs[r].status = 401
                      /\ reqs[r].code = CodeUnauthorized

\* A token of the secret's length and other content was turned away 401
\* after an earlier request was dispatched.
C1_Witness ==
    /\ mode = "http"
    /\ reqs[1].gate = "route"
    /\ reqs[2].request.authorization = HdrWrong
    /\ reqs[2].gate = "auth"
    /\ reqs[2].status = 401
    /\ reqs[2].code = CodeUnauthorized

(***************************************************************************)
(* C2.  While BEARER_TOKEN is unconfigured (not set, or set to the empty   *)
(* string), every POST /mcp request that reaches the authentication gate   *)
(* is answered 500 with code -32603 by the gate, whatever its credential,  *)
(* and nothing of protocol dispatch happens for it.                        *)
(***************************************************************************)
C2_UnconfiguredRejectsAll ==
    mode = "http" /\ Falsy(BEARER_TOKEN) =>
        \A r \in Slots :
            ReachedGate(r) =>
                /\ reqs[r].gate = "auth"
                /\ reqs[r].pc = "rejected"
                /\ reqs[r].status = 500
                /\ reqs[r].code = CodeInternal
                /\ NoDispatch(r)

\* With no secret configured, a request without a header and a request
\* with a well-formed bearer header were both answered 500.
C2_Witness ==
    /\ mode = "http"
    /\ ~BEARER_TOKEN.present
    /\ ~reqs[1].request.authorization.present
    /\ reqs[1].status = 500
    /\ reqs[2].request.authorization = HdrValid
    /\ reqs[2].status = 500
    /\ reqs[2].code = CodeInternal

(***************************************************************************)
(* C3.  Claim as stated: every POST /mcp request that presents a bearer    *)
(* token equal to the configured secret proceeds to protocol dispatch: a   *)
(* server instance and a transport are created for it.                     *)
(***************************************************************************)
C3_AsStated ==
    mode = "http" =>
        \A r \in Slots :
            Arrived(r) /\ IsPost(r) /\ ValidCredential(r) =>
                /\ reqs[r].gate = "route"
                /\ reqs[r].server # 0
                /\ reqs[r].transport # 0

(***************************************************************************)
(* C3, amended.  Every POST /mcp request that reaches the authentication   *)
(* gate (it passed the CORS check, the body parser and the rate limiter)   *)
(* and presents a bearer token equal to the configured secret proceeds to  *)
(* protocol dispatch: a server instance and a transport are created for it *)
(* and the request is handed to them (a request handler runs, unless       *)
(* connecting or handling fails, which is answered 500).                   *)
(***************************************************************************)
C3_ValidCredentialDispatched ==
    mode = "http" =>
        \A r \in Slots :
            ReachedGate(r) /\ ValidCredential(r) =>
                /\ reqs[r].gate = "route"
                /\ reqs[r].server # 0
                /\ reqs[r].transport # 0
                /\ reqs[r].requestId # 0
                /\ reqs[r].pc \in {"inflight", "done"}
                /\ Handled(r) \/ (reqs[r].status = 500 /\ reqs[r].code = CodeInternal)

\* The request that used up the budget of its address was dispatched, and
\* the next one with the same valid token was turned away by the limiter.
C3_Witness ==
    /\ mode = "http"
    /\ ValidCredential(1) /\ ValidCredential(2)
    /\ reqs[1].gate = "route" /\ Handled(1)
    /\ hits[RemoteIp] = RemoteMax + 1
    /\ reqs[2].gate = "limiter" /\ reqs[2].status = 429

(***************************************************************************)
(* Vocabulary of the dispatch properties.                                  *)
(***************************************************************************)
IsCall(r) == reqs[r].request.rpc.method = "tools/call"
IsList(r) == reqs[r].request.rpc.method = "tools/list"

\* The requested name is, character for character, the name of a
\* registered tool.
Registered(r) == \E i \in 1..Len(tools) : tools[i].name = reqs[r].request.rpc.name

\* The arguments the handler is due: those of the request, or the empty
\* argument set when the request has none.
DueArgs(r) ==
    IF reqs[r].request.rpc.arguments = Undefined
    THEN EmptyArgs
    ELSE reqs[r].request.rpc.arguments

\* The transport tag of the binding.
Tag == mode

(***************************************************************************)
(* C4.  On both transports, a call-tool whose name is not exactly the name *)
(* of a registered tool ends with a method-not-found error carrying the    *)
(* fixed code (over HTTP the response body carries it), invokes no tool    *)
(* handler and no DAV session accessor, and emits no tool-call event.      *)
(***************************************************************************)
C4_UnknownToolNotFound ==
    \A r \in Slots :
        Handled(r) /\ IsCall(r) /\ ~Registered(r) =>
            /\ reqs[r].pc = "done"
            /\ reqs[r].ret = "raise"
            /\ reqs[r].retCode = METHOD_NOT_FOUND
            /\ mode = "http" => reqs[r].code = METHOD_NOT_FOUND
            /\ reqs[r].invoked = <<>>
            /\ reqs[r].davAccess = <<>>
            /\ reqs[r].settled = "none"
            /\ EventsOf(r) = <<>>

\* A name differing from a registered one only in case was refused after a
\* call of the registered name was dispatched.
C4_Witness ==
    /\ reqs[1].request.rpc.name = "list_calendars"
    /\ reqs[1].pc = "inflight"
    /\ reqs[2].request.rpc.name = "List_Calendars"
    /\ reqs[2].ret = "raise"
    /\ reqs[2].retCode = METHOD_NOT_FOUND

(***************************************************************************)
(* C5.  On both transports, list-tools, whatever was listed or called      *)
(* before it, returns one entry per registered tool, in registration       *)
(* order, each entry holding name, description and inputSchema and nothing *)
(* else; it never fails, invokes nothing and emits no tool-call event.     *)
(***************************************************************************)
C5_ListToolsProjection ==
    \A r \in Slots :
        Handled(r) /\ IsList(r) =>
            /\ reqs[r].pc = "done"
            /\ reqs[r].ret = "return"
            /\ Len(reqs[r].listed) = Len(tools)
            /\ \A i \in 1..Len(tools) :
                /\ DOMAIN reqs[r].listed[i] = {"name", "description", "inputSchema"}
                /\ reqs[r].listed[i].name = tools[i].name
                /\ reqs[r].listed[i].description = tools[i].description
                /\ reqs[r].listed[i].inputSchema = tools[i].inputSchema
            /\ reqs[r].invoked = <<>>
            /\ reqs[r].davAccess = <<>>
            /\ EventsOf(r) = <<>>
            /\ \A q \in Slots : Handled(q) /\ IsList(q) => reqs[q].listed = reqs[r].listed

\* list-tools was served after a tool call that failed.
C5_Witness ==
    /\ reqs[1].settled = "failed"
    /\ IsList(2)
    /\ reqs[2].ret = "return"
    /\ Len(reqs[2].listed) = 2

(***************************************************************************)
(* C6.  For every call-tool on a registered tool, under every interleaving *)
(* of the calls in flight: the start event of the call is in the log when  *)
(* its handler is invoked; while the handler is in flight the call has no  *)
(* other event; once it settled the call has exactly one more event, a     *)
(* success or an error; over HTTP every event of the call carries the      *)
(* correlation id of its own request, which no other request has.          *)
(***************************************************************************)
C6_EventsWellOrdered ==
    \A r \in Slots :
        Handled(r) /\ IsCall(r) /\ Registered(r) =>
            LET ev == EventsOf(r)
            IN  /\ Len(ev) >= 1
                /\ ev[1].phase = "start"
                /\ Len(reqs[r].invoked) = 1
                /\ reqs[r].invoked[1][3] <= Len(toolLog)
                /\ toolLog[reqs[r].invoked[1][3]] = ev[1]
                /\ reqs[r].pc = "inflight" => Len(ev) = 1
                /\ reqs[r].pc = "done" =>
                      /\ Len(ev) = 2
                      /\ ev[2].phase = (IF reqs[r].settled = "ok" THEN "success" ELSE "error")
                /\ \A i \in 1..Len(ev) :
                      /\ ev[i].transport = Tag
                      /\ ev[i].toolName = reqs[r].request.rpc.name
                      /\ mode = "http" =>
                            /\ ev[i].requestId = reqs[r].requestId
                            /\ ev[i].requestId # 0
                            /\ \A q \in Slots \ {r} : reqs[q].requestId # ev[i].requestId

\* Two HTTP calls in flight at once, the second settling first: their
\* events interleave.
C6_Witness ==
    /\ mode = "http"
    /\ Len(toolLog) = 4
    /\ toolLog[1].call = 1 /\ toolLog[1].phase = "start"
    /\ toolLog[2].call = 2 /\ toolLog[2].phase = "start"
    /\ toolLog[3].call = 2 /\ toolLog[3].phase = "error"
    /\ toolLog[4].call = 1 /\ toolLog[4].phase = "success"

(***************************************************************************)
(* C7.  (specification SpecLogFault: logger operations may throw.)  A      *)
(* failing logger operation never aborts a call-tool on a registered tool  *)
(* and never changes its outcome: the handler is invoked, and the call     *)
(* returns the handler's result if the handler resolved and the envelope   *)
(* of the handler's failure if it rejected.                                *)
(***************************************************************************)
C7_LoggerFailureHarmless ==
    \A r \in Slots :
        reqs[r].pc = "done" /\ reqs[r].ret # "none" /\ IsCall(r) /\ Registered(r) =>
            /\ Len(reqs[r].invoked) = 1
            /\ reqs[r].settled # "none"
            /\ reqs[r].ret = "return"
            /\ reqs[r].settled = "ok" =>
                  reqs[r].retVal = HandlerResult(reqs[r].request.rpc.name, DueArgs(r))
            /\ reqs[r].settled = "failed" =>
                  reqs[r].retVal = createToolErrorResponse("DAV request failed")

(***************************************************************************)
(* C8.  A failure raised inside a tool handler is caught at the dispatch   *)
(* boundary: call-tool returns the translator's envelope of that failure   *)
(* and raises nothing, exactly one error event records it, and the failure *)
(* leaves every other request, the limiter's store and the process         *)
(* configuration as they were, so that later requests are still received.  *)
(***************************************************************************)
\* C8, the state part: the call of a failed handler returned the envelope.
C8_Inv ==
    \A r \in Slots :
        reqs[r].settled = "failed" =>
            /\ reqs[r].pc = "done"
            /\ reqs[r].ret = "return"
            /\ reqs[r].retCode = 0
            /\ reqs[r].retVal = [isError |-> TRUE, content |-> <<"Error", "DAV request failed">>]
            /\ mode = "http" /\ reqs[r].status # 0 =>
                  reqs[r].status = 200 /\ reqs[r].code = 0
            /\ \A q \in Slots :
                  reqs[q].pc = "free" /\ (q = 1 \/ reqs[q - 1].pc # "free") =>
                      ENABLED (HttpPost(q) \/ StdioMessage(q))

\* C8, the step part: the failing settlement changes that call and the log.
C8_Step ==
    \A r \in Slots :
        reqs[r].settled = "none" /\ reqs'[r].settled = "failed" =>
            /\ \A q \in Slots \ {r} : reqs'[q] = reqs[q]
            /\ UNCHANGED <<dav, got, proc, mode, BEARER_TOKEN, loggerFaulty, hits, win, nextUuid, nextObj>>
            /\ Len(toolLog') = Len(toolLog) + 1

\* C8: in every state a failed handler's call has returned the envelope
\* (C8_Inv), and the step in which a handler fails touches nothing but that
\* call and the log (C8_Step).
C8_HandlerFailureCaught == []C8_Inv /\ [][C8_Step]_vars

\* After the handler of the first call failed and its envelope was returned,
\* a second call was received and served.
C8_Witness ==
    /\ Len(toolLog) = 4
    /\ toolLog[1].call = 1 /\ toolLog[2].call = 1 /\ toolLog[2].phase = "error"
    /\ reqs[1].retVal.isError
    /\ toolLog[3].call = 2 /\ toolLog[4].call = 2 /\ toolLog[4].phase = "success"
    /\ reqs[2].ret = "return" /\ ~reqs[2].retVal.isError

(***************************************************************************)
(* C9.  For every call-tool on a registered tool the handler of exactly    *)
(* that tool is invoked exactly once, with the arguments of the request or *)
(* with the empty argument set when the request has none, and when the     *)
(* handler resolves its result is what call-tool returns.                  *)
(***************************************************************************)
C9_HandlerInvokedOnce ==
    \A r \in Slots :
        /\ Len(reqs[r].invoked) <= 1
        /\ Len(reqs[r].davAccess) = Len(reqs[r].invoked)
        /\ Handled(r) /\ IsCall(r) /\ Registered(r) =>
              /\ Len(reqs[r].invoked) = 1
              /\ tools[reqs[r].invoked[1][1]].name = reqs[r].request.rpc.name
              /\ reqs[r].invoked[1][2] = DueArgs(r)
              /\ reqs[r].invoked[1][2] # Undefined
              /\ reqs[r].settled = "ok" =>
                    /\ reqs[r].ret = "return"
                    /\ reqs[r].retVal = HandlerResult(reqs[r].request.rpc.name, DueArgs(r))

\* A call without arguments was served: its handler got the empty argument
\* set and its result came back.
C9_Witness ==
    \E r \in Slots :
        /\ reqs[r].request.rpc = CallRpc("list_calendars", Undefined)
        /\ reqs[r].settled = "ok"
        /\ reqs[r].invoked = <<<<1, EmptyArgs, 1>>>>
        /\ reqs[r].retVal = [isError |-> FALSE, content |-> <<"list_calendars", EmptyArgs>>]

(***************************************************************************)
(* C10.  Every POST /mcp request that passes the authentication gate gets  *)
(* a server instance and a transport of its own, created for it and shared *)
(* with no other request; both are open until its response stream closes   *)
(* and closed from then on, whether the stream closed after a response,    *)
(* after a failure while connecting or handling, or under a handler still  *)
(* in flight; requests that do not pass the gate get neither.              *)
(***************************************************************************)
C10_PairPerRequest ==
    mode = "http" =>
        \A r \in Slots :
            /\ reqs[r].gate # "route" => reqs[r].server = 0 /\ reqs[r].transport = 0
            /\ reqs[r].gate = "route" =>
                  /\ reqs[r].server # 0
                  /\ reqs[r].transport # 0
                  /\ reqs[r].server # reqs[r].transport
                  /\ \A q \in Slots \ {r} :
                        {reqs[r].server, reqs[r].transport}
                            \cap {reqs[q].server, reqs[q].transport} = {}
                  /\ reqs[r].serverClosed = reqs[r].resClosed
                  /\ reqs[r].transportClosed = reqs[r].resClosed

\* One request's stream closed under its handler in flight (the client went
\* away), another's after a failure while connecting: both pairs are closed.
C10_Witness ==
    /\ mode = "http"
    /\ reqs[1].pc = "inflight" /\ reqs[1].resClosed
    /\ reqs[1].serverClosed /\ reqs[1].transportClosed
    /\ reqs[2].gate = "route" /\ reqs[2].status = 500 /\ reqs[2].ret = "none"
    /\ reqs[2].resClosed /\ reqs[2].serverClosed /\ reqs[2].transportClosed


C12_NotInitializedFails ==
    got.accessor # "" /\ got.during # "resolved" =>
        /\ got.raised # ""
        /\ got.handle = Null

(***************************************************************************)
(* C13.  If a field the selected credential mode requires is absent from   *)
(* the configuration (Basic: serverUrl, username, password; OAuth:         *)
(* serverUrl, username, clientId, clientSecret, refreshToken, tokenUrl),   *)
(* initialize fails and no login is attempted on either client.            *)
(***************************************************************************)
RequiredFields(m) ==
    IF useOAuth(m)
    THEN {"serverUrl", "username", "clientId", "clientSecret", "refreshToken", "tokenUrl"}
    ELSE {"serverUrl", "username", "password"}

C14_LoginFailures ==
    /\ dav.pc \in {"calLogin", "cardLogin", "resolved"} =>
          dav.logins # <<>> /\ dav.logins[1] = "caldav"
    /\ dav.pc = "rejected" /\ dav.logins = <<>> =>
          dav.calDavClient = Null /\ dav.cardDavClient = Null
    /\ dav.pc = "rejected" /\ dav.logins = <<"caldav">> => ~dav.calDavClient.loggedIn
    /\ dav.pc = "resolved" =>
          /\ dav.logins = <<"caldav", "carddav">>
          /\ dav.calDavClient.loggedIn
          /\ ~useOAuth(dav) => dav.cardDavClient.loggedIn /\ ~dav.warned
          /\ useOAuth(dav) => (dav.warned <=> ~dav.cardDavClient.loggedIn)
    /\ dav.pc = "rejected" /\ dav.logins = <<"caldav", "carddav">> =>
          ~useOAuth(dav) /\ dav.calDavClient.loggedIn /\ ~dav.cardDavClient.loggedIn

\* In OAuth mode initialize succeeded, with the warning, although the
\* CardDAV login failed after the CalDAV login succeeded.
C14_Witness ==
    /\ useOAuth(dav)
    /\ dav.pc = "resolved"
    /\ dav.logins = <<"caldav", "carddav">>
    /\ dav.calDavClient.loggedIn
    /\ ~dav.cardDavClient.loggedIn
    /\ dav.warned

(***************************************************************************)
(* C15.  In both modes no request is received, no tool handler is invoked, *)
(* the server does not listen and no transport is attached unless          *)
(* tsdavManager.initialize and then initializeToolCallLogger have each     *)
(* been called once and have completed; and when the validation of the     *)
(* configuration or initialize fails the process exits with code 1 and     *)
(* never listens, attaches a transport or receives a request.              *)
(***************************************************************************)
StartFailed == proc.logged = "Failed to start" \/ dav.pc = "rejected"

\* The process listens, has a transport, was Ready or received a request.
StartedServing ==
    \/ proc.listening
    \/ proc.transport # 0
    \/ "Ready" \in {proc.history[i] : i \in DOMAIN proc.history}
    \/ \E r \in Slots : Arrived(r) \/ reqs[r].invoked # <<>>

C15_Inv ==
    /\ proc.davInits <= 1 /\ proc.loggerInits <= 1
    /\ proc.loggerInits = 1 => proc.davInits = 1 /\ dav.pc = "resolved"
    /\ StartedServing =>
          /\ dav.pc = "resolved"
          /\ proc.davInits = 1
          /\ proc.loggerInits = 1
    /\ StartFailed =>
          /\ proc.phase = "Terminated"
          /\ proc.exitCode = 1
          /\ proc.history = <<"Uninitialized", "Initializing", "Terminated">>
          /\ ~proc.listening /\ proc.transport = 0 /\ proc.server = 0
          /\ \A r \in Slots : ~Arrived(r)

\* Nothing happens after the exit.
C15_Step == proc.phase = "Terminated" => UNCHANGED vars

C15_StartupOrder == []C15_Inv /\ [][C15_Step]_vars

\* An OAuth stdio process whose CardDAV login failed serves a tool call on
\* its transport after one initialization of each kind.
C15_Witness ==
    /\ mode = "stdio"
    /\ useOAuth(dav) /\ dav.warned
    /\ proc.phase = "Ready" /\ proc.transport # 0
    /\ proc.davInits = 1 /\ proc.loggerInits = 1
    /\ reqs[1].invoked # <<>>

(***************************************************************************)
(* C16.  Every HTTP request that fails, wherever the failure arises (CORS  *)
(* rejection, rate-limit rejection, malformed body, authentication         *)
(* failure, unknown tool, failure while connecting or handling the         *)
(* transport), is answered with a JSON-RPC error carrying a numeric code,  *)
(* and a failed tool handler with the error envelope.                      *)
(***************************************************************************)
C16_EveryFailureJsonRpc ==
    mode = "http" =>
        \A r \in Slots :
            /\ reqs[r].status >= 400 \/ (reqs[r].status # 0 /\ reqs[r].ret = "raise") =>
                  reqs[r].code # 0
            /\ reqs[r].settled = "failed" /\ reqs[r].ret = "return" =>
                  reqs[r].retVal.isError

(***************************************************************************)
(* C18.  The stdio binding moves only along Uninitialized -> Initializing  *)
(* -> Ready -> ShuttingDown -> Terminated (or ends with a code other than  *)
(* 0, before the start or on a failure); it has one server and one         *)
(* transport, the only objects it constructs, while it serves its calls;   *)
(* and a SIGTERM or SIGINT received in any state after the start leads     *)
(* through ShuttingDown to Terminated with exit code 0.                    *)
(***************************************************************************)
StdioEdges ==
    {<<"Uninitialized", "Initializing">>, <<"Initializing", "Ready">>,
     <<"Ready", "ShuttingDown">>, <<"ShuttingDown", "Terminated">>}
\* Ends with a code other than 0: before the start, on a failure.
FailureEdges ==
    {<<"Uninitialized", "Terminated">>, <<"Initializing", "Terminated">>,
     <<"Ready", "Terminated">>}

\* The process was ended by a signal: by its handler, or killed.
EndedBySignal == proc.exitCode \in {0, 143, 130}
Passed(phase) == phase \in {proc.history[i] : i \in DOMAIN proc.history}

C18_StdioLifecycle ==
    mode = "stdio" =>
        /\ \A i \in 1..(Len(proc.history) - 1) :
              \/ <<proc.history[i], proc.history[i + 1]>> \in StdioEdges
              \/ /\ <<proc.history[i], proc.history[i + 1]>> \in FailureEdges
                 /\ proc.exitCode # 0
        /\ Passed("Ready") =>
              /\ proc.server = 1 /\ proc.transport = 2 /\ nextObj = 2
              /\ \A r \in Slots : reqs[r].server = 0 /\ reqs[r].transport = 0
        /\ EndedBySignal /\ Passed("Initializing") =>
              /\ proc.exitCode = 0
              /\ Passed("ShuttingDown")

(***************************************************************************)
(* C19.  In the stdio binding an uncaught exception or an unhandled        *)
(* promise rejection that occurs while Ready is logged and ends the        *)
(* process with exit code 1, and nothing is served after it.               *)
(***************************************************************************)
C19_Inv ==
    mode = "stdio" /\ proc.logged \in FaultKinds =>
        /\ proc.phase = "Terminated"
        /\ proc.exitCode = 1
        /\ proc.history = <<"Uninitialized", "Initializing", "Ready", "Terminated">>

C19_Step ==
    /\ mode = "stdio" /\ proc.phase = "Ready" /\ Fault =>
          /\ proc'.logged \in FaultKinds
          /\ proc'.phase = "Terminated"
          /\ proc'.exitCode = 1
    /\ mode = "stdio" /\ proc.phase = "Terminated" => UNCHANGED <<reqs, toolLog, proc>>

C19_StdioFaultFatal == []C19_Inv /\ [][C19_Step]_vars

\* An unhandled rejection ended the Ready stdio process while the handler
\* of a call was in flight.
C19_Witness ==
    /\ mode = "stdio"
    /\ proc.history = <<"Uninitialized", "Initializing", "Ready", "Terminated">>
    /\ proc.logged = "Unhandled promise rejection"
    /\ proc.exitCode = 1
    /\ reqs[1].pc = "inflight"

(***************************************************************************)
(* C17.  Claim as stated: for every address, within any quarter of an hour *)
(* no more requests to /mcp pass the limiter than the budget of the        *)
(* address (100; 10000 for loopback and internal addresses).               *)
(***************************************************************************)
Budget(ip) == IF ip = RemoteIp THEN RemoteMax ELSE InternalMax

C17_Inv ==
    /\ \A ip \in IPs : win[ip].passed <= Budget(ip) /\ win[ip].passed <= hits[ip]
    /\ \A r \in Slots :
          reqs[r].gate = "limiter" =>
              /\ reqs[r].pc = "rejected"
              /\ reqs[r].status = 429
              /\ NoDispatch(r)

\* The step in which request r arrives.
C17_Step ==
    \A r \in Slots :
        reqs[r].pc = "free" /\ reqs'[r].pc # "free" =>
            LET ip == reqs'[r].request.ip
            IN  /\ \A other \in IPs \ {ip} :
                      hits'[other] = hits[other] /\ win'[other] = win[other]
                /\ reqs'[r].gate \in {"auth", "route", "method"} =>
                      /\ hits[ip] < Budget(ip)
                      /\ win'[ip].passed = win[ip].passed + 1
                /\ reqs'[r].gate = "limiter" =>
                      /\ hits[ip] >= Budget(ip)
                      /\ win'[ip] = win[ip]

ClosedObjects ==
    {reqs[q].server : q \in {s \in Slots : reqs[s].serverClosed}}
    \cup {reqs[q].transport : q \in {s \in Slots : reqs[s].transportClosed}}

C20_Inv ==
    mode = "http" =>
        \A r \in Slots :
            reqs[r].server # 0 =>
                /\ reqs[r].transport # 0 /\ reqs[r].transport # reqs[r].server
                /\ \A q \in Slots \ {r} :
                      {reqs[r].server, reqs[r].transport}
                          \cap {reqs[q].server, reqs[q].transport} = {}
                /\ ~reqs[r].resClosed =>
                      {reqs[r].server, reqs[r].transport} \cap ClosedObjects = {}

C20_Step ==
    /\ \A r \in Slots :
          ~reqs[r].resClosed /\ reqs'[r].resClosed =>
              /\ \A q \in Slots \ {r} : reqs'[q] = reqs[q]
              /\ reqs'[r].server = reqs[r].server
              /\ reqs'[r].transport = reqs[r].transport
              /\ reqs[r].server # 0 => reqs'[r].serverClosed /\ reqs'[r].transportClosed
    /\ reqs' # reqs =>
          /\ dav'.calDavClient = dav.calDavClient
          /\ dav'.cardDavClient = dav.cardDavClient

C20_RequestsIsolated == []C20_Inv /\ [][C20_Step]_vars

\* Two calls are in flight at once; the stream of the first has closed and
\* its pair with it, the pair of the second is open.
C20_Witness ==
    /\ mode = "http"
    /\ reqs[1].pc = "inflight" /\ reqs[2].pc = "inflight"
    /\ reqs[1].resClosed /\ reqs[1].serverClosed /\ reqs[1].transportClosed
    /\ ~reqs[2].resClosed /\ ~reqs[2].serverClosed /\ ~reqs[2].transportClosed

(***************************************************************************)
(* C21.  When the response stream of a request closes while a tool handler *)
(* of that request is in flight, the transport and the server of the       *)
(* request are closed in that very step; the handler is not interrupted:   *)
(* it can still settle, and when it does its outcome event (success or     *)
(* error) is emitted; and its result is discarded: no response is written  *)
(* for the call after the close.                                           *)
(***************************************************************************)
\* The stream of request r closed while its handler was in flight.
ClosedInFlight(r) ==
    /\ mode = "http"
    /\ reqs[r].resClosed
    /\ reqs[r].pc = "inflight"

C21_Inv ==
    \A r \in Slots :
        /\ ClosedInFlight(r) =>
              /\ reqs[r].transportClosed /\ reqs[r].serverClosed
              /\ reqs[r].status = 0
              /\ ENABLED HandlerSettles(r)
        /\ (mode = "http" /\ reqs[r].resClosed /\ reqs[r].settled # "none") =>
              reqs[r].status \in {0, 200}

C21_Step ==
    \A r \in Slots :
        /\ (mode = "http" /\ reqs[r].pc = "inflight"
                /\ ~reqs[r].resClosed /\ reqs'[r].resClosed) =>
              /\ reqs'[r].transportClosed /\ reqs'[r].serverClosed
              /\ reqs'[r].pc = "inflight"
              /\ toolLog' = toolLog
        /\ (ClosedInFlight(r) /\ reqs'[r].pc # "inflight") =>
              /\ reqs'[r].settled \in {"ok", "failed"}
              /\ Len(toolLog') = Len(toolLog) + 1
              /\ toolLog'[Len(toolLog')].call = r
              /\ toolLog'[Len(toolLog')].requestId = reqs[r].requestId
              /\ toolLog'[Len(toolLog')].phase =
                    (IF reqs'[r].settled = "ok" THEN "success" ELSE "error")
              /\ reqs'[r].status = 0
              /\ reqs'[r].code = 0

\* C21: a call whose stream closed in flight has its pair closed, no
\* response, and a handler that can settle (C21_Inv); the close tears the
\* pair down at once and leaves the handler in flight, and the settlement
\* after the close emits the outcome event and writes no response
\* (C21_Step).
C21_CloseInFlight == []C21_Inv /\ [][C21_Step]_vars

\* The stream of the first call closed while its handler was in flight; the
\* handler has since resolved, its success event is in the log, and no
\* response was written.
C21_Witness ==
    /\ mode = "http"
    /\ reqs[1].resClosed /\ reqs[1].transportClosed /\ reqs[1].serverClosed
    /\ reqs[1].pc = "done" /\ reqs[1].settled = "ok"
    /\ reqs[1].status = 0
    /\ Len(toolLog) >= 2 /\ toolLog[2].call = 1 /\ toolLog[2].phase = "success"

(***************************************************************************)
(* C22.  Every POST /mcp passes the gates in one order: the CORS check,    *)
(* then the limiter, then authenticateBearer, then the dispatch, and a     *)
(* request rejected at a gate reaches no later gate: a request is answered *)
(* by the CORS check if its origin is not allowed, else by the limiter if  *)
(* the budget of its address is used up, else by authenticateBearer if its *)
(* credential is not accepted, else by the route.                          *)
(***************************************************************************)
\* The request of slot r would be let through by authenticateBearer.
Authentic(r) ==
    authenticateBearer(BEARER_TOKEN, reqs[r].request.authorization) = GateNext

\* Slot r was dispatched: it has a correlation id and its pair.
Dispatched(r) ==
    reqs[r].requestId # 0 /\ reqs[r].server # 0 /\ reqs[r].transport # 0

C22_Inv ==
    \A r \in Slots :
        (mode = "http" /\ Arrived(r) /\ IsPost(r)) =>
            /\ reqs[r].gate \in {"cors", "body", "limiter", "auth", "route"}
            /\ ~CorsAllows(reqs[r].request.origin) <=> reqs[r].gate = "cors"
            /\ reqs[r].gate = "cors" => reqs[r].status = 500
            /\ reqs[r].gate = "body" =>
                  ~reqs[r].request.bodyOk /\ reqs[r].status = 400
            /\ reqs[r].gate \in {"limiter", "auth", "route"} =>
                  reqs[r].request.bodyOk
            /\ reqs[r].gate = "limiter" <=> reqs[r].status = 429
            /\ reqs[r].gate = "auth" =>
                  ~Authentic(r) /\ reqs[r].status \in {401, 500}
            /\ reqs[r].gate = "route" => Authentic(r)
            /\ reqs[r].gate # "route" =>
                  ~Dispatched(r) /\ reqs[r].pc = "rejected" /\ EventsOf(r) = <<>>
            /\ reqs[r].gate = "route" <=> Dispatched(r)

\* C22, the step part: what the arrival of a POST does at each gate.
C22_Step ==
    \A r \in Slots :
        (mode = "http" /\ reqs[r].pc = "free" /\ reqs'[r].pc # "free"
            /\ reqs'[r].request.method = "POST") =>
            LET req == reqs'[r].request
                exhausted == hits[req.ip] + 1 > LimiterMax(req.ip)
                counted == hits' = [hits EXCEPT ![req.ip] = @ + 1]
                verdict == authenticateBearer(BEARER_TOKEN, req.authorization)
            IN  /\ reqs'[r].gate \in {"cors", "body"} =>
                      hits' = hits /\ win' = win
                /\ reqs'[r].gate = "limiter" =>
                      exhausted /\ counted /\ win' = win
                /\ (reqs'[r].gate \notin {"cors", "body"} /\ exhausted) =>
                      reqs'[r].gate = "limiter"
                /\ reqs'[r].gate = "auth" =>
                      /\ ~exhausted /\ counted /\ win' = LetPass(req.ip)
                      /\ reqs'[r].status = verdict.status
                      /\ reqs'[r].code = verdict.code
                /\ reqs'[r].gate = "route" =>
                      ~exhausted /\ counted /\ win' = LetPass(req.ip)
                /\ reqs'[r].gate # "route" =>
                      UNCHANGED <<toolLog, nextUuid, nextObj>>

Compares(r) ==
    /\ mode = "http" /\ Arrived(r) /\ IsPost(r) /\ ReachedGate(r)
    /\ ~Falsy(BEARER_TOKEN)
    /\ ~Falsy(reqs[r].request.authorization)
    /\ StartsWith(reqs[r].request.authorization.value, BearerPrefix)
Token(r) == Substring(reqs[r].request.authorization.value, 7)

C23_ConstantTime ==
    \A r \in Slots :
        Compares(r) =>
            /\ reqs[r].compared # <<>> /\ reqs[r].compared[1] = LengthStep
            /\ Len(Token(r)) # Len(BEARER_TOKEN.value) =>
                  reqs[r].compared = <<LengthStep>> /\ reqs[r].status = 401
            /\ Len(Token(r)) = Len(BEARER_TOKEN.value) =>
                  /\ Len(reqs[r].compared) = 1 + Len(BEARER_TOKEN.value)
                  /\ \A i \in 1..Len(BEARER_TOKEN.value) :
                        reqs[r].compared[i + 1] = ByteStep(i)
                  /\ \A q \in Slots :
                        (Compares(q) /\ Len(Token(q)) = Len(Token(r))) =>
                            reqs[q].compared = reqs[r].compared

\* Two tokens of the secret's length were compared: the secret itself, which
\* was accepted, and one that differs from it at the first position, which
\* was rejected; the steps of the two comparisons are the same.
C23_Witness ==
    /\ Compares(1) /\ Compares(2)
    /\ Token(1) = BEARER_TOKEN.value /\ reqs[1].gate = "route"
    /\ Len(Token(2)) = Len(Token(1)) /\ Token(2)[1] # Token(1)[1]
    /\ reqs[2].gate = "auth" /\ reqs[2].status = 401
    /\ reqs[1].compared = reqs[2].compared
    /\ Len(reqs[1].compared) = 3

(***************************************************************************)
(* C24.  In the HTTP binding an uncaught exception or an unhandled promise *)
(* rejection is logged and does not end the process: the fault changes     *)
(* nothing but the log, so that after any number of faults the Ready       *)
(* process is still listening and receives the next request; in the stdio  *)
(* binding the same fault ends the process.                                *)
(***************************************************************************)
\* The handlers of the process are in place: the module has loaded.
Loaded == proc.handlers /\ Running

C24_Inv ==
    /\ (mode = "http" /\ proc.phase = "Terminated" /\ proc.exitCode = 1) =>
          proc.logged = "Failed to start" \/ ~proc.handlers
    /\ (mode = "http" /\ proc.faults > 0 /\ proc.phase = "Ready") =>
          /\ proc.listening
          /\ proc.exitCode = NotExited
          /\ \A q \in Slots :
                (reqs[q].pc = "free" /\ (q = 1 \/ reqs[q - 1].pc # "free")) =>
                    ENABLED HttpPost(q)
          /\ \A q \in Slots : reqs[q].pc = "inflight" => ENABLED HandlerSettles(q)

C24_Step ==
    /\ (mode = "http" /\ Loaded /\ Fault) =>
          /\ proc'.logged \in FaultKinds
          /\ proc' = [proc EXCEPT !.logged = proc'.logged, !.faults = @ + 1]
          /\ UNCHANGED <<dav, got, mode, BEARER_TOKEN, loggerFaulty, hits, win, reqs,
                         toolLog, nextUuid, nextObj>>
    /\ (mode = "stdio" /\ Loaded /\ Fault) => proc'.phase = "Terminated"

C24_HttpFaultSurvived == []C24_Inv /\ [][C24_Step]_vars

\* The HTTP process has logged two faults, the last one an unhandled
\* rejection; it is Ready and listening, it has answered a request, and the
\* handlers of the process have not ended it.
C24_Witness ==
    /\ mode = "http"
    /\ proc.faults = 2
    /\ proc.logged = "Unhandled promise rejection"
    /\ proc.phase = "Ready" /\ proc.listening /\ proc.exitCode = NotExited
    /\ reqs[1].pc = "done" /\ reqs[1].status = 200
    /\ reqs[2].pc = "free" /\ ENABLED HttpPost(2)

(***************************************************************************)
(* C25.  In the HTTP binding a SIGTERM or SIGINT ends the process with the *)
(* exit code 0 in the turn of its handler, which waits neither for the     *)
(* listening server to have closed nor for the requests in flight: a       *)
(* request in flight at the signal gets no response, and its response      *)
(* stream, server and transport are not closed by the process.             *)
(***************************************************************************)
\* The signal handler ended the process.
ShutDown ==
    /\ proc.phase = "Terminated"
    /\ Len(proc.history) >= 2
    /\ proc.history[Len(proc.history) - 1] = "ShuttingDown"

C25_Inv ==
    mode = "http" =>
        /\ proc.phase # "ShuttingDown"
        /\ ShutDown =>
              /\ proc.exitCode = 0
              /\ proc.logged = "shutting down"
              /\ ~proc.listening
              /\ \A r \in Slots :
                    reqs[r].pc = "inflight" =>
                        /\ reqs[r].status = 0
                        /\ ~ENABLED HandlerSettles(r)
                        /\ ~ENABLED ResClose(r)

C25_Step ==
    /\ (mode = "http" /\ Loaded /\ Signal) =>
          /\ proc'.phase = "Terminated"
          /\ proc'.exitCode = 0
          /\ proc'.history = proc.history \o <<"ShuttingDown", "Terminated">>
          /\ UNCHANGED <<reqs, toolLog, dav, hits>>
    /\ (mode = "http" /\ proc.phase = "Terminated") => UNCHANGED vars

=========================================================================
